---- MODULE Spec2Model ----
(***************************************************************************)
(* Model of the /api/search route handler of google-map-extractor          *)
(* (src/app/api/search/route.ts): request validation, the paginated text   *)
(* search loop with its inter-page sleep, the batched concurrent detail     *)
(* fetches and the summary/detail merge.                                    *)
(*                                                                          *)
(* One behaviour is one invocation of POST.  An action is the code that     *)
(* runs between two suspension points of the async handler (an awaited      *)
(* fetch or timer): everything up to the next await is one step.            *)
(***************************************************************************)
EXTENDS Integers, Sequences, FiniteSets, TLC

(***************************************************************************)
(* JavaScript values.  Every value is a tagged record, so that values of    *)
(* different JavaScript types can be compared.  A number is kept in tenths  *)
(* (Num(25) is 2.5) so that Math.floor has something to do.                 *)
(***************************************************************************)
Undef == [t |-> "undefined"]
Null == [t |-> "null"]
NaN == [t |-> "NaN"]
PosInfinity == [t |-> "Infinity"]
NegInfinity == [t |-> "-Infinity"]
Str(s) == [t |-> "string", v |-> s]
Num(tenths) == [t |-> "number", tenths |-> tenths]
Int2Num(n) == Num(n * 10)
Obj(fields) == [t |-> "object", f |-> fields]
Arr(items) == [t |-> "array", items |-> items]

\* typeof x
TypeOf(x) ==
  IF x.t \in {"number", "NaN", "Infinity", "-Infinity"} THEN "number"
  ELSE IF x.t \in {"null", "array"} THEN "object"
  ELSE x.t

\* a ?? b
Coalesce(a, b) == IF a.t \in {"undefined", "null"} THEN b ELSE a

\* o?.k (and o.k on an object): a property that is not there reads undefined
Get(o, k) == IF o.t = "object" /\ k \in DOMAIN o.f THEN o.f[k] ELSE Undef

\* ToBoolean(x), as used by if (x), x && y, x || y
Truthy(x) ==
  CASE x.t = "string" -> x.v # ""
    [] x.t = "number" -> x.tenths # 0
    [] x.t \in {"undefined", "null", "NaN"} -> FALSE
    [] OTHER -> TRUE

(***************************************************************************)
(* Strings.                                                                 *)
(***************************************************************************)
CharAt(s, i) == SubSeq(s, i, i)

IsSpace(c) == c \in {" ", "\t", "\n", "\r"}

\* String.prototype.includes
Includes(s, pat) ==
  \E i \in 1..(Len(s) - Len(pat) + 1) : SubSeq(s, i, i + Len(pat) - 1) = pat

\* String.prototype.trim
Trim(s) ==
  LET keep == {i \in 1..Len(s) : ~IsSpace(CharAt(s, i))}
      lo == CHOOSE i \in keep : \A j \in keep : i <= j
      hi == CHOOSE i \in keep : \A j \in keep : j <= i
  IN IF keep = {} THEN "" ELSE SubSeq(s, lo, hi)

\* Math.floor of a number kept in tenths
Floor(tenths) == tenths \div 10

\* `${x}` of a JavaScript value inside a template literal
Template(x) ==
  CASE x.t = "string" -> x.v
    [] x.t = "number" ->
         LET a == IF x.tenths < 0 THEN -x.tenths ELSE x.tenths
             sign == IF x.tenths < 0 THEN "-" ELSE ""
         IN IF a % 10 = 0
            THEN sign \o ToString(a \div 10)
            ELSE sign \o ToString(a \div 10) \o "." \o ToString(a % 10)
    [] OTHER -> x.t

(***************************************************************************)
(* Program constants.                                                       *)
(***************************************************************************)
MAX_TOTAL_RESULTS == 60
chunkSizeSix == 5 + 1
chunkSizeTwo == 5 - 3
chunkSize == 5
SleepMs == 2000

QuotaMessage ==
  "Google Places quota exceeded. Wait before trying again or adjust your API usage."

Min(a, b) == IF a < b THEN a ELSE b
Max(a, b) == IF a > b THEN a ELSE b


(***************************************************************************)
(* Math.floor, Math.max and Math.min on JavaScript numbers (NaN never       *)
(* reaches them here: sanitizeMaxResults returns before).                   *)
(***************************************************************************)
MathFloor(x) == IF x.t = "number" THEN Num(Floor(x.tenths) * 10) ELSE x

NumLess(a, b) ==
  CASE a.t = "-Infinity" -> b.t # "-Infinity"
    [] a.t = "Infinity" -> FALSE
    [] b.t = "Infinity" -> TRUE
    [] b.t = "-Infinity" -> FALSE
    [] OTHER -> a.tenths < b.tenths

MathMax(a, b) == IF NumLess(a, b) THEN b ELSE a
MathMin(a, b) == IF NumLess(b, a) THEN b ELSE a

(***************************************************************************)
(* sanitizeMaxResults (route.ts 92-96).                                     *)
(***************************************************************************)
sanitizeMaxResultsNoFloor(raw) ==
  IF TypeOf(raw) # "number" THEN Int2Num(MAX_TOTAL_RESULTS)
  ELSE IF raw.t = "NaN" THEN Int2Num(MAX_TOTAL_RESULTS)
  ELSE MathMin(Int2Num(MAX_TOTAL_RESULTS), MathMax(Int2Num(1), raw))

sanitizeMaxResults(raw) ==
  IF TypeOf(raw) # "number" THEN Int2Num(MAX_TOTAL_RESULTS)
  ELSE IF raw.t = "NaN" THEN Int2Num(MAX_TOTAL_RESULTS)
  ELSE MathMin(Int2Num(MAX_TOTAL_RESULTS), MathMax(Int2Num(1), MathFloor(raw)))

(***************************************************************************)
(* toRecord (route.ts 57-90).  The result is a PlaceRecord; a field that    *)
(* is undefined is an absent field.                                         *)
(***************************************************************************)
MapUrlLngFirst(lat, lng, place_id) ==
  Str("https://www.google.com/maps/search/?api=1&query=" \o Template(lng) \o ","
      \o Template(lat) \o "&query_place_id=" \o Template(place_id))

MapUrl(lat, lng, place_id) ==
  Str("https://www.google.com/maps/search/?api=1&query=" \o Template(lat) \o ","
      \o Template(lng) \o "&query_place_id=" \o Template(place_id))

toRecord(summary, details) ==
  LET source == Coalesce(details, Obj([none |-> Undef]))
      phone == Coalesce(Get(source, "formatted_phone_number"),
                        Coalesce(Get(source, "international_phone_number"), Str("")))
      lat == Coalesce(Get(Get(Get(source, "geometry"), "location"), "lat"),
                      Get(Get(Get(summary, "geometry"), "location"), "lat"))
      lng == Coalesce(Get(Get(Get(source, "geometry"), "location"), "lng"),
                      Get(Get(Get(summary, "geometry"), "location"), "lng"))
      googleMapsUrl ==
        Coalesce(Get(source, "url"),
                 IF lat # Undef /\ lng # Undef
                 THEN MapUrl(lat, lng, Get(summary, "place_id"))
                 ELSE Undef)
  IN [name |-> Coalesce(Get(source, "name"),
                        Coalesce(Get(summary, "name"), Str("Unknown"))),
      formattedAddress |->
        Coalesce(Get(source, "formatted_address"),
                 Coalesce(Get(summary, "formatted_address"),
                          Str("Address unavailable"))),
      phoneNumber |-> IF Truthy(phone) THEN phone ELSE Undef,
      googleMapsUrl |-> googleMapsUrl,
      website |-> Coalesce(Get(source, "website"), Undef),
      latitude |-> lat,
      longitude |-> lng,
      businessStatus |-> Coalesce(Get(source, "business_status"),
                                  Get(summary, "business_status")),
      types |-> Coalesce(Get(source, "types"), Get(summary, "types"))]

(***************************************************************************)
(* What a called function does: return a value or throw an Error.           *)
(***************************************************************************)
Return(v) == [tag |-> "return", value |-> v, isError |-> FALSE, message |-> ""]
Throw(msg) == [tag |-> "throw", value |-> Undef, isError |-> TRUE, message |-> msg]

(***************************************************************************)
(* An HTTP exchange as fetch() reports it.  arrived = FALSE is a rejected   *)
(* fetch (network failure); json = FALSE is a body response.json() cannot   *)
(* parse; payload is the parsed body.                                       *)
(***************************************************************************)
Http(ok, code, payload) ==
  [arrived |-> TRUE, ok |-> ok, status |-> code, json |-> TRUE, payload |-> payload]
HttpNotJson(ok, code) ==
  [arrived |-> TRUE, ok |-> ok, status |-> code, json |-> FALSE, payload |-> Undef]
NetworkFailure ==
  [arrived |-> FALSE, ok |-> FALSE, status |-> 0, json |-> FALSE, payload |-> Undef]

FetchFailedMessage == "fetch failed"
JsonSyntaxMessage == "Unexpected token < in JSON at position 0"

\* payload.status of a response body, "" when the body has none
BusinessStatus(resp) ==
  LET st == Get(resp.payload, "status") IN IF st.t = "string" THEN st.v ELSE ""

(***************************************************************************)
(* fetchPlaceDetails (route.ts 98-137), from the response of its fetch.     *)
(***************************************************************************)
fetchPlaceDetails(resp) ==
  IF ~resp.arrived THEN Throw(FetchFailedMessage)
  ELSE IF ~resp.ok THEN Return(Undef)
  ELSE IF ~resp.json THEN Throw(JsonSyntaxMessage)
  ELSE IF BusinessStatus(resp) = "OK" THEN Return(Get(resp.payload, "result"))
  ELSE IF BusinessStatus(resp) \in {"NOT_FOUND", "ZERO_RESULTS"} THEN Return(Undef)
  ELSE IF BusinessStatus(resp) = "OVER_QUERY_LIMIT" THEN Throw(QuotaMessage)
  ELSE Throw(Coalesce(Get(resp.payload, "error_message"),
                      Str("Google Places Details returned status "
                          \o Template(Get(resp.payload, "status")))).v)

(***************************************************************************)
(* fetchTextSearchPage (route.ts 139-183), from the response of its fetch.  *)
(***************************************************************************)
fetchTextSearchPage(resp) ==
  IF ~resp.arrived THEN Throw(FetchFailedMessage)
  ELSE IF ~resp.ok
    THEN Throw("Text search failed with status " \o ToString(resp.status))
  ELSE IF ~resp.json THEN Throw(JsonSyntaxMessage)
  ELSE IF BusinessStatus(resp) \in {"OK", "ZERO_RESULTS"} THEN Return(resp.payload)
  ELSE IF BusinessStatus(resp) = "OVER_QUERY_LIMIT" THEN Throw(QuotaMessage)
  ELSE IF BusinessStatus(resp) \in {"REQUEST_DENIED", "INVALID_REQUEST"}
    THEN Throw(Coalesce(Get(resp.payload, "error_message"),
                        Str("Request denied: " \o BusinessStatus(resp))).v)
  ELSE Throw(Coalesce(Get(resp.payload, "error_message"),
                      Str("Unexpected status: " \o BusinessStatus(resp))).v)

(***************************************************************************)
(* The wrapper around each detail fetch of a batch (route.ts 239-253):      *)
(* rethrow a quota or denial error, turn any other failure into undefined.  *)
(***************************************************************************)
guardedDetailsRethrowAll(outcome) == outcome

guardedDetailsSwallowAll(outcome) ==
  IF outcome.tag = "return" THEN outcome ELSE Return(Undef)

guardedDetails(outcome) ==
  IF outcome.tag = "return" THEN outcome
  ELSE IF outcome.isError
          /\ (Includes(outcome.message, "quota exceeded")
              \/ Includes(outcome.message, "Request denied"))
    THEN outcome
  ELSE Return(Undef)


(***************************************************************************)
(* Bounds of the model.                                                     *)
(***************************************************************************)
MaxPages == 3          \* search pages the remote serves in one run
MaxPageSize == 3       \* results on one page, in the specification Spec
MaxCap == 6            \* largest maxResults requested, in the specification Spec

(***************************************************************************)
(* The remote service.  The k-th place the search endpoint lists is         *)
(* RemoteSummary(k); which fields a place carries depends on k.  The detail *)
(* endpoint's record of a place is RemoteDetail(place_id).                  *)
(***************************************************************************)
PlaceId(k) == "p" \o ToString(k)

Geometry(lat, lng) == Obj([location |-> Obj([lat |-> lat, lng |-> lng])])

RemoteSummary(k) ==
  Obj([place_id |-> Str(PlaceId(k)),
       name |-> IF k % 3 = 0 THEN Undef ELSE Str("summary name " \o ToString(k)),
       formatted_address |->
         IF k % 2 = 0 THEN Undef ELSE Str("summary address " \o ToString(k)),
       business_status |-> IF k % 4 = 1 THEN Str("OPERATIONAL") ELSE Undef,
       geometry |-> IF k % 3 = 1 THEN Undef ELSE Geometry(Int2Num(k), Num(-5 * k)),
       types |-> IF k % 2 = 1 THEN Arr(<<"cafe">>) ELSE Undef])

LastChar(s) == CharAt(s, Len(s))

RemoteDetail(place_id) ==
  LET c == LastChar(place_id) IN
  Obj([name |-> IF c \in {"1", "4", "7"} THEN Undef ELSE Str("detail name " \o place_id),
       formatted_phone_number |->
         IF c \in {"2", "5"} THEN Undef
         ELSE IF c = "3" THEN Str("") ELSE Str("555-" \o place_id),
       international_phone_number |->
         IF c \in {"5", "8"} THEN Undef ELSE Str("+1 555-" \o place_id),
       formatted_address |->
         IF c \in {"1", "2"} THEN Undef ELSE Str("detail address " \o place_id),
       url |-> IF c \in {"1", "3", "6"} THEN Undef
               ELSE Str("https://maps.google.com/?cid=" \o place_id),
       website |-> IF c \in {"2", "4"} THEN Undef
                   ELSE Str("https://" \o place_id \o ".example"),
       business_status |-> IF c \in {"1", "5"} THEN Undef ELSE Str("CLOSED_TEMPORARILY"),
       geometry |-> IF c \in {"1", "3", "9"} THEN Undef
                    ELSE Geometry(Int2Num(100), Int2Num(200)),
       types |-> IF c \in {"1", "6"} THEN Undef ELSE Arr(<<"restaurant">>)])

\* error_message texts the remote may attach to a non-OK status
ErrorMessages ==
  {Undef,
   Str("The provided API key is invalid."),
   Str("Request denied by the project policy."),
   Str("Daily quota exceeded for this key.")}

\* those of them that speak neither of a quota nor of a denial
PlainErrorMessages == {Undef, Str("The provided API key is invalid.")}

ErrorPayload(status, error_message) ==
  Obj([status |-> Str(status), error_message |-> error_message])

\* what the detail endpoint may answer for a place
DetailOk(place_id) ==
  Http(TRUE, 200, Obj([status |-> Str("OK"), result |-> RemoteDetail(place_id)]))

DetailFaults ==
  {NetworkFailure, HttpNotJson(TRUE, 200),
   Http(FALSE, 503, ErrorPayload("UNKNOWN_ERROR", Undef)),
   Http(FALSE, 429, ErrorPayload("OVER_QUERY_LIMIT", Undef))}
  \cup {Http(TRUE, 200, ErrorPayload(st, Undef)) :
          st \in {"NOT_FOUND", "ZERO_RESULTS", "OVER_QUERY_LIMIT"}}
  \cup {Http(TRUE, 200, ErrorPayload("REQUEST_DENIED", m)) : m \in ErrorMessages}
  \cup {Http(TRUE, 200, ErrorPayload(st, m)) :
          st \in {"INVALID_REQUEST", "UNKNOWN_ERROR"}, m \in PlainErrorMessages}

\* the non-OK answers of the detail endpoint in a run, by remote.detail
DetailFaultsOf(kind) ==
  CASE kind = "any" -> DetailFaults
    [] kind = "ok or quota" -> {Http(TRUE, 200, ErrorPayload("OVER_QUERY_LIMIT", Undef))}
    [] OTHER -> {}

\* what the search endpoint may answer besides a page of results
SearchFaults ==
  {NetworkFailure, HttpNotJson(TRUE, 200),
   Http(FALSE, 500, ErrorPayload("UNKNOWN_ERROR", Undef)),
   Http(FALSE, 429, ErrorPayload("OVER_QUERY_LIMIT", Undef)),
   Http(TRUE, 200, ErrorPayload("OVER_QUERY_LIMIT", Undef))}
  \cup {Http(TRUE, 200, ErrorPayload("REQUEST_DENIED", m)) : m \in ErrorMessages}
  \cup {Http(TRUE, 200, ErrorPayload(st, m)) :
          st \in {"INVALID_REQUEST", "UNKNOWN_ERROR"}, m \in PlainErrorMessages}

PageToken(k) == Str("token-" \o ToString(k))

\* a page of `size` further places, after `have` places were already listed
SearchPage(status, have, size, token) ==
  Http(TRUE, 200,
       Obj([status |-> Str(status),
            results |-> Arr([j \in 1..size |-> RemoteSummary(have + j)]),
            next_page_token |-> token]))

(***************************************************************************)
(* State of one invocation of POST.                                         *)
(***************************************************************************)
VARIABLES
  remote,            \* what the remote service may answer in this run: the sizes of
                     \* its pages, and which answers its detail endpoint gives
  request,           \* the parsed body of the inbound request
  pc,                \* where the handler is suspended
  cleanMaxResults,   \* const cleanMaxResults (203)
  searchQuery,       \* const searchQuery (204)
  summaries,         \* const summaries (213), the accumulator
  pageToken,         \* let pageToken (214)
  page,              \* const page (221) of the current iteration, undefined outside the loop
  trimmedSummaries,  \* const trimmedSummaries (231)
  records,           \* const records (233)
  index,             \* let index (236)
  detailsList,       \* the results Promise.all collects for the current chunk; lost when it rejects
  searchReq,         \* the search request in flight
  inFlight,          \* positions of trimmedSummaries with a detail fetch in flight
  timer,             \* duration of the pending sleep, 0 when none
  reply,             \* the response of the handler
  numSearch,         \* search requests issued so far
  numSleeps,         \* sleeps completed so far
  numBatches,        \* batches of detail fetches issued so far
  swallowed,         \* a detail failure was caught and turned into undefined (251)
  fnArg,             \* argument of the pure function under test
  fnOut              \* its successive results

vars ==
  <<remote, request, pc, cleanMaxResults, searchQuery, summaries, pageToken, page,
    trimmedSummaries, records, index, detailsList, searchReq, inFlight, timer,
    reply, numSearch, numSleeps, numBatches, swallowed, fnArg, fnOut>>

handlerVars ==
  <<remote, request, pc, cleanMaxResults, searchQuery, summaries, pageToken, page,
    trimmedSummaries, records, index, detailsList, searchReq, inFlight, timer,
    reply, numSearch, numSleeps, numBatches, swallowed>>

Pending == [t |-> "pending"]
NoReq == [query |-> "", pagetoken |-> Undef, key |-> "", open |-> FALSE]
NoReply == [sent |-> FALSE, status |-> 0, error |-> Undef, results |-> Undef]

InvalidJson == [t |-> "invalid"]

Body(apiKey, query, location, maxResults) ==
  Obj([apiKey |-> apiKey, query |-> query, location |-> location,
       maxResults |-> maxResults])


(***************************************************************************)
(* Pieces of POST (route.ts 185-272).                                       *)
(***************************************************************************)
\* Array.prototype.slice(start, end), 0 <= start
Slice(s, start, end) == SubSeq(s, start + 1, Min(end, Len(s)))

\* NextResponse.json({ error }, { status })
ErrorReply(status, message) ==
  [sent |-> TRUE, status |-> status, error |-> Str(message), results |-> Undef]

\* NextResponse.json({ results: records }) (261-263)
ResultsReply(recs) ==
  [sent |-> TRUE, status |-> 200, error |-> Undef, results |-> Arr(recs)]

\* the catch block of POST (264-271)
CatchReplyStatusOk(thrown) ==
  [sent |-> TRUE, status |-> 200, error |-> Str(thrown.message), results |-> Undef]

CatchReply(thrown) ==
  ErrorReply(500, IF thrown.isError THEN thrown.message
                  ELSE "Unexpected error while searching for places.")

\* typeof x !== "string" || x.trim() === "" (189, 196)
MissingTextTypeOnly(x) == TypeOf(x) # "string"

MissingText(x) == TypeOf(x) # "string" \/ Trim(x.v) = ""

\* the composed query (204-207)
composeQueryNoTrim(query, location) ==
  IF TypeOf(location) = "string" /\ location.v # ""
  THEN query.v \o " in " \o location.v
  ELSE query.v

composeQuery(query, location) ==
  IF TypeOf(location) = "string" /\ Trim(location.v) # ""
  THEN query.v \o " in " \o location.v
  ELSE query.v

\* if (pageToken) at the top of the loop body (217)
shouldSleepNever(token) == FALSE

shouldSleep(token) == Truthy(token)

\* the while condition of the pagination loop (225-229)
loopContinuesWhileToken(token, count, clean) == Truthy(token)

loopContinuesNever(token, count, clean) == FALSE

loopContinuesBelowCeiling(token, count, clean) ==
  Truthy(token) /\ count < MAX_TOTAL_RESULTS

loopContinues(token, count, clean) ==
  /\ Truthy(token)
  /\ count * 10 < clean.tenths
  /\ count < MAX_TOTAL_RESULTS

\* summaries.slice(0, cleanMaxResults) (231)
trimNothing(all, clean) == all

trim(all, clean) == Slice(all, 0, Floor(clean.tenths))

\* positions of the chunk that starts at idx (236-237)
ChunkPositions(trimmed, idx) == idx .. (Min(idx + chunkSize, Len(trimmed)) - 1)

\* chunk.forEach: one record per member, with the detail at the same offset (256-258)
chunkRecordsFirstDetail(chunk, list) ==
  [o \in 1..Len(chunk) |-> toRecord(chunk[o], list[1])]

chunkRecords(chunk, list) ==
  [o \in 1..Len(chunk) |-> toRecord(chunk[o], list[o])]

\* fetchTextSearchPage up to its fetch (144-156)
IssueSearch(query, token) ==
  /\ searchReq' = [query |-> query,
                   pagetoken |-> IF Truthy(token) THEN token ELSE Undef,
                   key |-> Get(request, "apiKey").v,
                   open |-> TRUE]
  /\ numSearch' = numSearch + 1
  /\ pc' = "awaitSearch"

\* the for loop from its test (236): issue the next chunk's fetches, or reply
BatchOrReply(trimmed, recs, idx) ==
  IF idx < Len(trimmed)
  THEN /\ inFlight' = ChunkPositions(trimmed, idx)
       /\ detailsList' = [o \in 1..Cardinality(ChunkPositions(trimmed, idx)) |-> Pending]
       /\ numBatches' = numBatches + 1
       /\ pc' = "awaitBatch"
       /\ reply' = reply
  ELSE /\ inFlight' = {}
       /\ detailsList' = detailsList
       /\ numBatches' = numBatches
       /\ pc' = "responded"
       /\ reply' = ResultsReply(recs)

(***************************************************************************)
(* POST from its entry to its first await of a fetch (187-221).             *)
(***************************************************************************)
POST_Begin ==
  /\ pc = "start"
  /\ IF request = InvalidJson
     THEN /\ reply' = CatchReply(Throw(JsonSyntaxMessage))
          /\ pc' = "responded"
          /\ UNCHANGED <<cleanMaxResults, searchQuery, searchReq, numSearch>>
     ELSE IF MissingText(Get(request, "apiKey"))
     THEN /\ reply' = ErrorReply(400, "API key is required.")
          /\ pc' = "responded"
          /\ UNCHANGED <<cleanMaxResults, searchQuery, searchReq, numSearch>>
     ELSE IF MissingText(Get(request, "query"))
     THEN /\ reply' = ErrorReply(400, "Search keyword is required.")
          /\ pc' = "responded"
          /\ UNCHANGED <<cleanMaxResults, searchQuery, searchReq, numSearch>>
     ELSE /\ cleanMaxResults' = sanitizeMaxResults(Get(request, "maxResults"))
          /\ searchQuery' = composeQuery(Get(request, "query"), Get(request, "location"))
          /\ IssueSearch(composeQuery(Get(request, "query"), Get(request, "location")),
                         pageToken)
          /\ reply' = reply
  /\ UNCHANGED <<remote, request, summaries, pageToken, page, trimmedSummaries,
                 records, index, detailsList, inFlight, timer, numSleeps,
                 numBatches, swallowed, fnArg, fnOut>>

(***************************************************************************)
(* The responses the search endpoint may give to the request in flight.     *)
(***************************************************************************)
SearchResponses ==
  SearchFaults
  \cup {SearchPage("ZERO_RESULTS", Len(summaries), 0, Undef)}
  \cup {SearchPage("OK", Len(summaries), size, token) :
          size \in remote.pageSizes,
          token \in {Undef}
                    \cup (IF numSearch = 1 THEN {Str("")} ELSE {})
                    \cup (IF numSearch < MaxPages THEN {PageToken(numSearch)} ELSE {})}

(***************************************************************************)
(* The search fetch settles: the rest of fetchTextSearchPage (158-183), the *)
(* end of the loop body (223-229) and, when the loop ends, the trimming and *)
(* the first chunk's fetches (231-241).                                     *)
(***************************************************************************)
SearchResponseWith(resp) ==
  /\ pc = "awaitSearch"
  /\ resp \in SearchResponses
  /\   LET got == fetchTextSearchPage(resp)
           all == summaries \o Get(got.value, "results").items
           token == Get(got.value, "next_page_token")
       IN IF got.tag = "throw"
          THEN /\ reply' = CatchReply(got)
               /\ pc' = "responded"
               /\ searchReq' = [searchReq EXCEPT !.open = FALSE]
               /\ UNCHANGED <<summaries, pageToken, page, trimmedSummaries, records,
                              index, detailsList, inFlight, timer, numSearch,
                              numBatches>>
          ELSE /\ summaries' = all
               /\ pageToken' = token
               /\ IF loopContinues(token, Len(all), cleanMaxResults)
                  THEN /\ page' = got.value
                       /\ IF shouldSleep(token)
                          THEN /\ timer' = SleepMs
                               /\ pc' = "sleeping"
                               /\ searchReq' = [searchReq EXCEPT !.open = FALSE]
                               /\ numSearch' = numSearch
                          ELSE /\ timer' = timer
                               /\ IssueSearch(searchQuery, token)
                       /\ UNCHANGED <<trimmedSummaries, records, index, detailsList,
                                      inFlight, numBatches, reply>>
                  ELSE /\ page' = Undef
                       /\ trimmedSummaries' = trim(all, cleanMaxResults)
                       /\ records' = <<>>
                       /\ index' = 0
                       /\ BatchOrReply(trim(all, cleanMaxResults), <<>>, 0)
                       /\ searchReq' = [searchReq EXCEPT !.open = FALSE]
                       /\ UNCHANGED <<timer, numSearch>>
  /\ UNCHANGED <<remote, request, cleanMaxResults, searchQuery, numSleeps, swallowed,
                 fnArg, fnOut>>

SearchResponse == \E resp \in SearchResponses : SearchResponseWith(resp)

(***************************************************************************)
(* The timer of sleep(2000) fires (54-55, 218): the next page is requested  *)
(* with the token (221).                                                    *)
(***************************************************************************)
SleepDone ==
  /\ pc = "sleeping"
  /\ timer' = 0
  /\ numSleeps' = numSleeps + 1
  /\ IssueSearch(searchQuery, pageToken)
  /\ UNCHANGED <<remote, request, cleanMaxResults, searchQuery, summaries, pageToken,
                 page, trimmedSummaries, records, index, detailsList, inFlight,
                 reply, numBatches, swallowed, fnArg, fnOut>>

(***************************************************************************)
(* The responses the detail endpoint may give for a place.                  *)
(***************************************************************************)
DetailResponses(place_id) == {DetailOk(place_id)} \cup DetailFaultsOf(remote.detail)

(***************************************************************************)
(* The detail fetch of position i settles: the rest of fetchPlaceDetails    *)
(* (113-136) and its wrapper (239-253).  While Promise.all is pending, a    *)
(* rejection rejects it and POST's catch replies; the last fulfilment       *)
(* resolves it, the chunk's records are pushed and the loop goes on         *)
(* (254-263).                                                               *)
(***************************************************************************)
DetailResponseWith(i, resp) ==
  /\ pc = "awaitBatch"
  /\ i \in inFlight
  /\ \/ resp \in DetailFaultsOf(remote.detail)
     \/ resp = DetailOk(Get(trimmedSummaries[i + 1], "place_id").v)
  /\   LET fetched == fetchPlaceDetails(resp)
           got == guardedDetails(fetched)
           list == [detailsList EXCEPT ![i - index + 1] = got.value]
           chunk == Slice(trimmedSummaries, index, index + chunkSize)
           recs == records \o chunkRecords(chunk, list)
       IN IF got.tag = "throw"
          THEN /\ inFlight' = inFlight \ {i}
               /\ reply' = CatchReply(got)
               /\ pc' = "responded"
               /\ detailsList' = <<>>
               /\ UNCHANGED <<records, index, numBatches, swallowed>>
          ELSE /\ swallowed' = (swallowed \/ fetched.tag = "throw")
               /\ IF inFlight = {i}
                  THEN /\ records' = recs
                       /\ index' = index + chunkSize
                       /\ BatchOrReply(trimmedSummaries, recs, index + chunkSize)
                  ELSE /\ inFlight' = inFlight \ {i}
                       /\ detailsList' = list
                       /\ UNCHANGED <<pc, reply, records, index, numBatches>>
  /\ UNCHANGED <<remote, request, cleanMaxResults, searchQuery, summaries, pageToken,
                 page, trimmedSummaries, searchReq, timer, numSearch, numSleeps,
                 fnArg, fnOut>>

DetailResponse(i) ==
  \E resp \in DetailResponses(Get(trimmedSummaries[i + 1], "place_id").v) :
    DetailResponseWith(i, resp)

(***************************************************************************)
(* A detail fetch settles after Promise.all was rejected and POST replied:  *)
(* nothing awaits it any more, whatever it answers.                         *)
(***************************************************************************)
LateDetailResponse(i) ==
  /\ pc = "responded"
  /\ i \in inFlight
  /\ inFlight' = inFlight \ {i}
  /\ UNCHANGED <<remote, request, pc, cleanMaxResults, searchQuery, summaries,
                 pageToken, page, trimmedSummaries, records, index, detailsList,
                 searchReq, timer, reply, numSearch, numSleeps, numBatches,
                 swallowed, fnArg, fnOut>>

Next ==
  \/ POST_Begin
  \/ SearchResponse
  \/ SleepDone
  \/ \E i \in inFlight : DetailResponse(i)
  \/ \E i \in inFlight : LateDetailResponse(i)

(***************************************************************************)
(* Inbound requests.                                                        *)
(***************************************************************************)
ApiKeys == {Undef, Int2Num(7), Str(""), Str("  "), Str("AIza")}
Queries == {Undef, Null, Str(""), Str(" \t"), Str("coffee")}
Locations == {Undef, Null, Str(""), Str(" "), Str("Austin")}
SmallCaps ==
  {Num(-15), Int2Num(0), Num(25), Int2Num(3), Int2Num(MaxCap - 1), Int2Num(MaxCap)}

Idle ==
  /\ pc = "start"
  /\ cleanMaxResults = Int2Num(0)
  /\ searchQuery = ""
  /\ summaries = <<>>
  /\ pageToken = Undef
  /\ page = Undef
  /\ trimmedSummaries = <<>>
  /\ records = <<>>
  /\ index = 0
  /\ detailsList = <<>>
  /\ searchReq = NoReq
  /\ inFlight = {}
  /\ timer = 0
  /\ reply = NoReply
  /\ numSearch = 0
  /\ numSleeps = 0
  /\ numBatches = 0
  /\ swallowed = FALSE

Init ==
  /\ remote = [pageSizes |-> 0..MaxPageSize, detail |-> "any"]
  /\ request \in {InvalidJson}
       \cup {Body(k, q, Undef, Int2Num(MaxCap)) : k \in ApiKeys, q \in Queries}
       \cup {Body(Str("AIza"), Str("coffee"), l, Num(25)) : l \in Locations}
       \cup {Body(Str("AIza"), Str("coffee"), Str("Austin"), m) : m \in SmallCaps}
  /\ Idle
  /\ fnArg = Undef
  /\ fnOut = <<>>

Spec == Init /\ [][Next]_vars


(***************************************************************************)
(* Runs at the hard ceiling: pages as large as the search endpoint serves   *)
(* them (20), pages that reach or pass the ceiling, and every kind of       *)
(* maxResults; the detail endpoint answers every place or reports that the  *)
(* quota is exceeded.                                                       *)
(***************************************************************************)
CeilingPageSizes == {0, 20, MAX_TOTAL_RESULTS + 1}

CeilingCaps ==
  {Undef, Int2Num(0), Num(10 * MAX_TOTAL_RESULTS - 5), Int2Num(100)}

InitCeiling ==
  /\ remote = [pageSizes |-> CeilingPageSizes, detail |-> "ok or quota"]
  /\ request \in {Body(Str("AIza"), Str("coffee"), Undef, m) : m \in CeilingCaps}
  /\ Idle
  /\ fnArg = Undef
  /\ fnOut = <<>>

SpecCeiling == InitCeiling /\ [][Next]_vars


(***************************************************************************)
(* sanitizeMaxResults on its own: the function is applied to an input, and  *)
(* then to its own result.                                                  *)
(***************************************************************************)
MaxRawTenths == 700    \* raw maxResults range over -70.0 .. 70.0 in tenths

SanitizeInputs ==
  {Undef, Null, NaN, PosInfinity, NegInfinity, Str(""), Str("25"),
   Obj([value |-> Int2Num(5)]), Arr(<<>>)}
  \cup {Num(t) : t \in (-MaxRawTenths)..MaxRawTenths}

InitSanitize ==
  /\ remote = [pageSizes |-> {}, detail |-> "ok"]
  /\ request = InvalidJson
  /\ Idle
  /\ fnArg \in SanitizeInputs
  /\ fnOut = <<>>

ApplySanitize ==
  /\ Len(fnOut) < 2
  /\ fnOut' = Append(fnOut, sanitizeMaxResults(IF fnOut = <<>> THEN fnArg
                                               ELSE fnOut[Len(fnOut)]))
  /\ UNCHANGED <<handlerVars, fnArg>>

SpecSanitize == InitSanitize /\ [][ApplySanitize]_vars

(***************************************************************************)
(* toRecord on its own: the function is applied to a summary and to a       *)
(* detail, or to no detail.  A text field is missing, null, empty or a      *)
(* text; coordinates are missing at any level (geometry, location, lat,     *)
(* lng) or numbers, as TextSearchPlace and PlaceDetails declare them.       *)
(***************************************************************************)
SummaryTexts == {Undef, Null, Str(""), Str("A")}
DetailTexts == {Undef, Null, Str(""), Str("B")}
DetailUrls == {Undef, Null, Str(""), Str("https://maps.google.com/?cid=1")}

\* the geometry field of a place whose coordinates are lat and lng
Geometries(lat, lng) ==
  {Undef, Obj([location |-> Undef])}
  \cup {Geometry(a, b) : a \in {Undef, lat}, b \in {Undef, lng}}

SummaryGeometries == Geometries(Int2Num(1), Int2Num(2))
DetailGeometries == Geometries(Num(405), Num(-740))

\* summaries and details that differ in their name and address
NameInputs ==
  {[summary |-> Obj([place_id |-> Str("p1"), name |-> sn, formatted_address |-> sa]),
    details |-> d] :
     sn \in SummaryTexts, sa \in SummaryTexts,
     d \in {Undef} \cup {Obj([name |-> dn, formatted_address |-> da]) :
                           dn \in DetailTexts, da \in DetailTexts}}

\* details that differ in their phone numbers, and a summary whose JSON
\* carries a phone number of its own
PhoneInputs ==
  {[summary |-> s, details |-> d] :
     s \in {Obj([place_id |-> Str("p1"), name |-> Str("A")]),
            Obj([place_id |-> Str("p1"), name |-> Str("A"),
                 formatted_phone_number |-> Str("555-A"),
                 international_phone_number |-> Str("+1 555-A")])},
     d \in {Undef} \cup {Obj([formatted_phone_number |-> p1,
                              international_phone_number |-> p2]) :
                           p1 \in DetailTexts, p2 \in DetailTexts}}

\* summaries and details that differ in their coordinates and their url
GeoInputs ==
  {[summary |-> Obj([place_id |-> Str("p1"), geometry |-> sg]), details |-> d] :
     sg \in SummaryGeometries,
     d \in {Undef} \cup {Obj([url |-> u, geometry |-> dg]) :
                           u \in DetailUrls, dg \in DetailGeometries}}

RecordInputs == NameInputs \cup PhoneInputs \cup GeoInputs

InitRecord ==
  /\ remote = [pageSizes |-> {}, detail |-> "ok"]
  /\ request = InvalidJson
  /\ Idle
  /\ fnArg \in RecordInputs
  /\ fnOut = <<>>

ApplyToRecord ==
  /\ fnOut = <<>>
  /\ fnOut' = <<toRecord(fnArg.summary, fnArg.details)>>
  /\ UNCHANGED <<handlerVars, fnArg>>

SpecRecord == InitRecord /\ [][ApplyToRecord]_vars

(***************************************************************************)
(* Runs against a search endpoint whose pages always carry a result when    *)
(* they carry a token (an empty page is the ZERO_RESULTS page, without      *)
(* token), for caps of 1, 2, 45 and 60.  Every fetch is answered and every  *)
(* timer fires: the steps of the handler are weakly fair.                   *)
(***************************************************************************)
WalkPageSizes == {1, MAX_TOTAL_RESULTS \div 2}

WalkCaps == {Undef, Int2Num(0), Int2Num(2), Int2Num(45)}

InitWalk ==
  /\ remote = [pageSizes |-> WalkPageSizes, detail |-> "ok or quota"]
  /\ request \in {Body(Str("AIza"), Str("coffee"), Undef, m) : m \in WalkCaps}
  /\ Idle
  /\ fnArg = Undef
  /\ fnOut = <<>>

SpecWalk == InitWalk /\ [][Next]_vars /\ WF_vars(Next)

(***************************************************************************)
(* Properties.                                                              *)
(***************************************************************************)
Succeeded == reply.sent /\ reply.results # Undef
Failed == reply.sent /\ reply.error # Undef
CapOf(clean) == Floor(clean.tenths)
PlaceIdAt(i) == Get(trimmedSummaries[i], "place_id").v

\* C1: a successful run returns exactly one record per summary retained after
\* trimming to the sanitized cap; the retained summaries are the first ones in
\* discovery order, and record i merges retained summary i with the detail of
\* its own place or with no detail, whatever the detail fetches answered and in
\* whatever order they completed.
C1_OneRecordPerSummaryInOrder ==
  Succeeded =>
    /\ reply.results = Arr(records)
    /\ Len(trimmedSummaries) = Min(Len(summaries), CapOf(cleanMaxResults))
    /\ Len(records) = Len(trimmedSummaries)
    /\ \A i \in 1..Len(summaries) : summaries[i] = RemoteSummary(i)
    /\ \A i \in 1..Len(trimmedSummaries) :
         /\ trimmedSummaries[i] = summaries[i]
         /\ records[i] \in {toRecord(trimmedSummaries[i], RemoteDetail(PlaceIdAt(i))),
                            toRecord(trimmedSummaries[i], Undef)}

\* C1 witness: a success over two batches and two pages, after trimming, with a
\* swallowed failure, a record built with its detail and one built without.
C1_Witness ==
  /\ Succeeded
  /\ Len(records) > chunkSize
  /\ Len(summaries) > Len(trimmedSummaries)
  /\ numSearch >= 2
  /\ swallowed
  /\ records[2] = toRecord(trimmedSummaries[2], RemoteDetail(PlaceIdAt(2)))
  /\ records[3] = toRecord(trimmedSummaries[3], Undef)
  /\ records[6] = toRecord(trimmedSummaries[6], RemoteDetail(PlaceIdAt(6)))

\* C2: whatever maxResults was requested and whatever pages the search endpoint
\* served, the summaries handed to enrichment number at most min(cap, 60), the
\* cap being the requested maxResults as sanitized; a numeric request of at
\* least 1 is itself never exceeded.
C2_RetainedAtMostCapAndCeiling ==
  LET raw == Get(request, "maxResults") IN
  /\ Len(trimmedSummaries) <= Min(CapOf(cleanMaxResults), MAX_TOTAL_RESULTS)
  /\ (raw.t = "number" /\ raw.tenths >= 10 => Len(trimmedSummaries) * 10 <= raw.tenths)
  /\ \A i \in inFlight : i < Min(CapOf(cleanMaxResults), MAX_TOTAL_RESULTS)

\* C2 witness: 100 results were requested, more than 60 were collected and
\* exactly 60 went through enrichment.
C2_Witness ==
  /\ Succeeded
  /\ Get(request, "maxResults") = Int2Num(100)
  /\ Len(summaries) > MAX_TOTAL_RESULTS
  /\ Len(trimmedSummaries) = MAX_TOTAL_RESULTS
  /\ Len(records) = MAX_TOTAL_RESULTS

\* C3 as claimed: the accumulator never holds more than 60 summaries.
C3_AccumulatorAtMostCeiling == Len(summaries) <= MAX_TOTAL_RESULTS

\* C3 as amended: while a further page is awaited or slept for, the accumulator
\* holds fewer than 60 summaries and fewer than the sanitized cap; a page is
\* appended whole, and it is the retained sequence that never exceeds 60.
C3_AccumulatorBelowCeilingWhileLooping ==
  /\ pc \in {"awaitSearch", "sleeping"} =>
       /\ Len(summaries) < MAX_TOTAL_RESULTS
       /\ Len(summaries) < CapOf(cleanMaxResults)
  /\ Len(trimmedSummaries) <= MAX_TOTAL_RESULTS

\* C3 witness: a third page is awaited with 40 summaries collected.
C3_Witness ==
  /\ pc = "awaitSearch"
  /\ numSearch = 3
  /\ Len(summaries) = 40
  /\ cleanMaxResults = Int2Num(MAX_TOTAL_RESULTS)

\* C4: a search request that carries a continuation token is issued only when a
\* 2000 ms sleep completes, that sleep having started in the step that received
\* the response delivering the token; the first request is issued without a
\* sleep; a sleep is always followed by the request of the next page.
C4_WaitBeforeEveryTokenRequest ==
  [][/\ (numSearch' # numSearch /\ searchReq'.pagetoken # Undef) =>
          /\ pc = "sleeping"
          /\ timer = SleepMs
          /\ timer' = 0
          /\ numSleeps' = numSleeps + 1
          /\ searchReq'.pagetoken = pageToken
          /\ pageToken = Get(page, "next_page_token")
     /\ (numSearch' # numSearch /\ numSearch = 0) =>
          /\ pc = "start"
          /\ searchReq'.pagetoken = Undef
          /\ timer' = 0
          /\ numSleeps' = 0
     /\ (pc' = "sleeping" /\ pc # "sleeping") =>
          /\ pc = "awaitSearch"
          /\ timer' = SleepMs
          /\ Truthy(pageToken')
          /\ pageToken' = PageToken(numSearch)
     /\ pc = "sleeping" =>
          /\ numSearch' = numSearch + 1
          /\ searchReq'.open
          /\ searchReq'.pagetoken = pageToken
          /\ searchReq'.pagetoken # Undef
     /\ numSleeps' \in {numSleeps, numSleeps + 1}
     /\ (pc' # "sleeping" /\ numSearch' > 0) => numSleeps' = numSearch' - 1
    ]_vars

\* C4 witness: the third page has been requested with the second token after
\* two sleeps.
C4_Witness ==
  /\ pc = "awaitSearch"
  /\ searchReq.open
  /\ searchReq.pagetoken = PageToken(2)
  /\ numSearch = 3
  /\ numSleeps = 2

\* a delivered response whose parsed body carries the given business status
Carries(resp, statuses) ==
  resp.arrived /\ resp.ok /\ resp.json /\ BusinessStatus(resp) \in statuses

\* C5: when a search response or a detail response delivered to the running
\* handler carries the status OVER_QUERY_LIMIT, the handler replies in that step
\* with the rate-limit message and no results, whatever was collected before
\* and whichever batch and position the response belongs to; the reply is final.
C5_QuotaAbortsWithRateLimitError ==
  [][/\ \A resp \in SearchFaults \cup DetailFaults :
          (/\ Carries(resp, {"OVER_QUERY_LIMIT"})
           /\ \/ SearchResponseWith(resp)
              \/ \E i \in inFlight : i \notin inFlight' /\ DetailResponseWith(i, resp))
          => /\ pc' = "responded"
             /\ reply' = ErrorReply(500, QuotaMessage)
             /\ reply'.results = Undef
     /\ reply.sent => reply' = reply
    ]_vars

\* C5 witness: the rate-limit reply was given in the second batch, with five
\* records already built.
C5_Witness ==
  /\ reply = ErrorReply(500, QuotaMessage)
  /\ numBatches = 2
  /\ Len(records) = chunkSize
  /\ numSearch >= 2

\* C6 as claimed: a detail response that carries REQUEST_DENIED or
\* INVALID_REQUEST, delivered while its batch is awaited, makes the handler
\* reply with an error and no results.
C6_DenialAbortsTheOperation ==
  [][\A resp \in DetailFaults :
       (/\ Carries(resp, {"REQUEST_DENIED", "INVALID_REQUEST"})
        /\ pc = "awaitBatch"
        /\ \E i \in inFlight : i \notin inFlight' /\ DetailResponseWith(i, resp))
       => /\ pc' = "responded"
          /\ reply'.error # Undef
          /\ reply'.results = Undef
    ]_vars

\* the detail answers C7 is about: a transport non-success, NOT_FOUND or
\* ZERO_RESULTS, a failed fetch, an unreadable body, or another status whose
\* error says neither that the quota is exceeded nor that the request is denied
NonFatalDetailFaults ==
  {resp \in DetailFaults :
     \/ ~resp.arrived
     \/ ~resp.ok
     \/ ~resp.json
     \/ BusinessStatus(resp) \in {"NOT_FOUND", "ZERO_RESULTS"}
     \/ /\ BusinessStatus(resp) = "UNKNOWN_ERROR"
        /\ Get(resp.payload, "error_message") \in PlainErrorMessages}

\* what C7 promises of the step in which the fetch of position i settles
AbsorbedAt(i) ==
  /\ reply'.error = Undef
  /\ IF inFlight # {i}
     THEN /\ pc' = "awaitBatch"
          /\ inFlight' = inFlight \ {i}
          /\ detailsList'[i - index + 1] = Undef
          /\ \A o \in 1..Len(detailsList) :
               o # i - index + 1 => detailsList'[o] = detailsList[o]
     ELSE /\ Len(records') = Min(index + chunkSize, Len(trimmedSummaries))
          /\ records'[i + 1] = toRecord(trimmedSummaries[i + 1], Undef)
          /\ \A j \in 1..Len(records) : records'[j] = records[j]
          /\ IF Len(records') < Len(trimmedSummaries)
             THEN /\ pc' = "awaitBatch"
                  /\ inFlight' # {}
                  /\ numBatches' = numBatches + 1
             ELSE reply' = ResultsReply(records')

\* C7: such an answer, delivered while its batch is awaited, never makes the
\* handler reply with an error: the other fetches of the batch stay awaited,
\* the entity's detail is undefined, its record is built from the summary
\* alone once the batch is complete, and the next batch is then issued.
C7_NonFatalFailureIsAbsentDetail ==
  [][\A i \in inFlight :
       \/ AbsorbedAt(i)
       \/ ~ \E resp \in NonFatalDetailFaults :
              i \notin inFlight' /\ DetailResponseWith(i, resp)
    ]_vars

\* C7 witness: a success over two batches in which a failure was swallowed and
\* a record of each batch was built from its summary alone.
C7_Witness ==
  /\ Succeeded
  /\ swallowed
  /\ numBatches = 2
  /\ records[1] = toRecord(trimmedSummaries[1], Undef)
  /\ records[6] = toRecord(trimmedSummaries[6], Undef)
  /\ records[2] = toRecord(trimmedSummaries[2], RemoteDetail(PlaceIdAt(2)))

\* the credential or the query is missing, not a string, or empty
Absent(x) == x.t # "string" \/ x.v = ""

\* C8: for a request whose credential or query is missing, not a string or
\* empty, no search request and no detail request is ever issued, and the reply
\* is a validation error (status 400, an error message, no results).
C8_InvalidRequestMakesNoRemoteCall ==
  (request.t = "object"
   /\ (Absent(Get(request, "apiKey")) \/ Absent(Get(request, "query")))) =>
    /\ numSearch = 0
    /\ ~searchReq.open
    /\ inFlight = {}
    /\ numBatches = 0
    /\ pc \in {"start", "responded"}
    /\ pc = "responded" =>
         /\ reply.status = 400
         /\ reply.error \in {Str("API key is required."),
                             Str("Search keyword is required.")}
         /\ reply.results = Undef

\* C8 witness: a request with a credential and a null query was answered 400.
C8_Witness ==
  /\ pc = "responded"
  /\ Get(request, "apiKey") = Str("AIza")
  /\ Get(request, "query") = Null
  /\ reply = ErrorReply(400, "Search keyword is required.")

\* C9: at most 5 detail fetches are in flight; fetches are issued only when
\* none of the previous batch is left in flight, all together, for the
\* positions 5k .. 5k+4 of the retained summaries (k the number of batches
\* issued before), and with the records of all earlier batches built.
C9_BatchesOfFiveInSequence ==
  [][/\ Cardinality(inFlight') <= 5
     /\ (inFlight' \ inFlight # {}) =>
          /\ Cardinality(inFlight) <= 1
          /\ inFlight' \cap inFlight = {}
          /\ numBatches' = numBatches + 1
          /\ inFlight' = {j \in 0..(Len(trimmedSummaries') - 1) :
                            5 * numBatches <= j /\ j <= 5 * numBatches + 4}
          /\ Len(records') = 5 * numBatches
          /\ pc' = "awaitBatch"
     /\ (inFlight' \ inFlight = {}) => numBatches' = numBatches
    ]_vars

\* C9 witness: the second batch is in flight after the five fetches of the
\* first batch completed.
C9_Witness ==
  /\ pc = "awaitBatch"
  /\ numBatches = 2
  /\ inFlight = {5}
  /\ Len(records) = 5
  /\ Len(trimmedSummaries) = 6

\* C10: sanitizeMaxResults yields an integer in [1, 60]: 60 for an input that
\* is not a number or is NaN, and floor(x) clamped to [1, 60] for a number;
\* applied to its own result it yields that result again.
C10_SanitizeClampsAndIsIdempotent ==
  Len(fnOut) >= 1 =>
    LET r == fnOut[1] IN
    /\ r.t = "number"
    /\ r.tenths % 10 = 0
    /\ 10 <= r.tenths /\ r.tenths <= 600
    /\ fnArg.t \notin {"number", "Infinity", "-Infinity"} => r = Int2Num(60)
    /\ fnArg.t = "number" =>
         r = Int2Num(IF fnArg.tenths < 10 THEN 1
                     ELSE IF fnArg.tenths >= 600 THEN 60
                     ELSE fnArg.tenths \div 10)
    /\ fnArg.t = "Infinity" => r = Int2Num(60)
    /\ fnArg.t = "-Infinity" => r = Int2Num(1)
    /\ Len(fnOut) = 2 => fnOut[2] = fnOut[1]

\* C10 witness: 2.5 was sanitized to 2, and 2 to 2.
C10_Witness == fnArg = Num(25) /\ fnOut = <<Int2Num(2), Int2Num(2)>>

(***************************************************************************)
(* Properties of toRecord, stated in the specification SpecRecord.          *)
(***************************************************************************)
\* a text that is present and not empty
NonEmptyText(x) == x.t = "string" /\ x.v # ""

\* a value that is there: neither undefined nor null
Supplied(x) == x.t \notin {"undefined", "null"}

\* field k of the detail toRecord was given, undefined when it was given none
DetailField(k) == Get(fnArg.details, k)
SummaryField(k) == Get(fnArg.summary, k)

\* the first non-empty text of the detail's field, the summary's field and
\* the sentinel
FirstNonEmpty(dk, sk, sentinel) ==
  IF NonEmptyText(DetailField(dk)) THEN DetailField(dk)
  ELSE IF NonEmptyText(SummaryField(sk)) THEN SummaryField(sk)
  ELSE Str(sentinel)

\* C11 as claimed: the record's name is the detail's name when that is
\* present and non-empty, else the summary's name when present and non-empty,
\* else "Unknown"; the address likewise with "Address unavailable"; neither is
\* ever the empty string.
C11_NameAndAddressNeverEmpty ==
  Len(fnOut) = 1 =>
    /\ fnOut[1].name = FirstNonEmpty("name", "name", "Unknown")
    /\ fnOut[1].formattedAddress =
         FirstNonEmpty("formatted_address", "formatted_address", "Address unavailable")
    /\ fnOut[1].name # Str("")
    /\ fnOut[1].formattedAddress # Str("")

\* C12 as claimed: the record's phone is the detail's formatted number when
\* present and non-empty, else its international number when present and
\* non-empty, else absent; it is never the summary's and never empty.
C12_PhoneIsFirstNonEmptyOfDetail ==
  Len(fnOut) = 1 =>
    /\ fnOut[1].phoneNumber =
         (IF NonEmptyText(DetailField("formatted_phone_number"))
          THEN DetailField("formatted_phone_number")
          ELSE IF NonEmptyText(DetailField("international_phone_number"))
          THEN DetailField("international_phone_number")
          ELSE Undef)
    /\ fnOut[1].phoneNumber # Str("")
    /\ fnOut[1].phoneNumber \notin {Str("555-A"), Str("+1 555-A")}

Coordinates(place) ==
  <<Get(Get(Get(place, "geometry"), "location"), "lat"),
    Get(Get(Get(place, "geometry"), "location"), "lng")>>

HasCoordinates(place) ==
  Coordinates(place)[1] # Undef /\ Coordinates(place)[2] # Undef

\* C19 as claimed: the record's coordinates are the detail's pair when the
\* detail has one, else the summary's pair, else absent; latitude and
\* longitude always come from the same source, and one is present exactly
\* when the other is.
C19_CoordinatesFromOneSource ==
  Len(fnOut) = 1 =>
    LET r == fnOut[1] IN
    /\ <<r.latitude, r.longitude>> =
         (IF HasCoordinates(fnArg.details) THEN Coordinates(fnArg.details)
          ELSE IF HasCoordinates(fnArg.summary) THEN Coordinates(fnArg.summary)
          ELSE <<Undef, Undef>>)
    /\ (r.latitude = Undef) <=> (r.longitude = Undef)

(***************************************************************************)
(* Properties of the handler, continued.                                    *)
(***************************************************************************)
\* the query and the location of a request that passed validation
TheQuery == Get(request, "query").v
TheLocation == Get(request, "location")

\* C14 as claimed: every search request carries "<query> in <location>" when
\* the location is present and not the empty string, and the query unchanged
\* otherwise.
C14_QueryComposedWhenLocationNonEmpty ==
  numSearch >= 1 =>
    searchReq.query =
      (IF TheLocation.t = "string" /\ TheLocation.v # ""
       THEN TheQuery \o " in " \o TheLocation.v
       ELSE TheQuery)

\* C14 as amended: every search request of the invocation, the first and
\* those that carry a token, has the query "<query> in <location>" when the
\* location is a string with a character other than white space, and the
\* query unchanged when the location is missing, not a string, empty or
\* blank.
C14_QueryComposedWhenLocationNotBlank ==
  numSearch >= 1 =>
    /\ searchReq.query =
         (IF TheLocation.t = "string"
             /\ \E i \in 1..Len(TheLocation.v) : ~IsSpace(CharAt(TheLocation.v, i))
          THEN TheQuery \o " in " \o TheLocation.v
          ELSE TheQuery)
    /\ searchReq.query = searchQuery
    /\ searchReq.key = Get(request, "apiKey").v

\* C14 witness: the second page is requested with "coffee in Austin".
C14_Witness ==
  /\ searchReq.open
  /\ numSearch = 2
  /\ searchReq.pagetoken = PageToken(1)
  /\ searchReq.query = "coffee in Austin"

\* the request of the end-to-end scenario
ScenarioRequest == Body(Str("AIza"), Str("coffee"), Str("Austin"), Int2Num(3))

\* the records of the first n places, each merged with its own detail
EnrichedRecords(n) ==
  [k \in 1..n |-> toRecord(RemoteSummary(k), RemoteDetail(PlaceId(k)))]

\* C15: in the scenario (maxResults 3; a first page of 2 results with a
\* token; a second page of 1 result without token; every detail fetch
\* answered with the detail) the first page starts the one sleep, the sleep
\* ends with the second and last search request, the second page starts one
\* batch of 3 concurrent detail fetches, and the last detail completes the
\* reply of 3 records in discovery order.  In every successful run the sleeps
\* number the search requests less one, and the batches ceil(n / 5) for n
\* retained summaries.
C15_ScenarioAndCounts ==
  [][/\ request = ScenarioRequest =>
          /\ (/\ numSearch = 1
              /\ SearchResponseWith(SearchPage("OK", 0, 2, PageToken(1))))
             => /\ pc' = "sleeping"
                /\ numSearch' = 1
                /\ numSleeps' = 0
                /\ Len(summaries') = 2
                /\ numBatches' = 0
                /\ inFlight' = {}
          /\ (pc = "sleeping" /\ numSearch = 1)
             => /\ numSearch' = 2
                /\ numSleeps' = 1
                /\ searchReq'.open
                /\ searchReq'.pagetoken = PageToken(1)
                /\ searchReq'.query = "coffee in Austin"
          /\ (/\ numSearch = 2
              /\ Len(summaries) = 2
              /\ SearchResponseWith(SearchPage("OK", 2, 1, Undef)))
             => /\ numSearch' = 2
                /\ numSleeps' = 1
                /\ ~searchReq'.open
                /\ trimmedSummaries' = [k \in 1..3 |-> RemoteSummary(k)]
                /\ numBatches' = 1
                /\ inFlight' = {0, 1, 2}
                /\ pc' = "awaitBatch"
          /\ (/\ pc = "awaitBatch"
              /\ numSearch = 2
              /\ Len(trimmedSummaries) = 3
              /\ \E i \in 0..2 :
                   /\ inFlight = {i}
                   /\ \A o \in (0..2) \ {i} :
                        detailsList[o + 1] = RemoteDetail(PlaceId(o + 1))
                   /\ DetailResponseWith(i, DetailOk(PlaceId(i + 1))))
             => /\ reply' = ResultsReply(EnrichedRecords(3))
                /\ numSearch' = 2
                /\ numSleeps' = 1
                /\ numBatches' = 1
                /\ inFlight' = {}
     /\ (reply'.sent /\ reply'.results # Undef) =>
          /\ numSleeps' = numSearch' - 1
          /\ numBatches' = (Len(trimmedSummaries') + 4) \div 5
          /\ Len(reply'.results.items) = Len(trimmedSummaries')
    ]_vars

\* C15 witness: the scenario's request was answered with the 3 enriched
\* records after 2 search requests, 1 sleep and 1 batch.
C15_Witness ==
  /\ request = ScenarioRequest
  /\ reply = ResultsReply(EnrichedRecords(3))
  /\ numSearch = 2
  /\ numSleeps = 1
  /\ numBatches = 1
  /\ searchReq.query = "coffee in Austin"

\* a delivered response whose body reports that the quota is exhausted,
\* whatever its transport status
ReportsQuota(resp) ==
  resp.arrived /\ resp.json /\ BusinessStatus(resp) = "OVER_QUERY_LIMIT"

\* C16 as claimed: whenever a search response or a detail response delivered
\* to the running handler reports quota exhaustion, also one that is a
\* transport non-success, the handler replies with the rate-limit error.
C16_QuotaTakesPriority ==
  [][\A resp \in SearchFaults \cup DetailFaults :
       (/\ ReportsQuota(resp)
        /\ \/ SearchResponseWith(resp)
           \/ \E i \in inFlight : i \notin inFlight' /\ DetailResponseWith(i, resp))
       => reply' = ErrorReply(500, QuotaMessage)
    ]_vars

\* C17: the step that raises a fatal error, and every step after it, issues
\* no search request and no detail request, starts no sleep and builds no
\* record; the reply is one error message with status 400 or 500 and no
\* results, it never changes, and no reply carries both an error and results.
C17_FatalErrorEndsTheWork ==
  [][/\ (reply'.sent /\ reply'.error # Undef) =>
          /\ pc' = "responded"
          /\ numSearch' = numSearch
          /\ ~searchReq'.open
          /\ timer' = 0
          /\ numBatches' = numBatches
          /\ inFlight' \subseteq inFlight
          /\ records' = records
          /\ reply'.error.t = "string"
          /\ reply'.status \in {400, 500}
          /\ reply'.results = Undef
          /\ reply.sent => reply' = reply
     /\ reply'.sent => ((reply'.error = Undef) # (reply'.results = Undef))
    ]_vars

\* C17 witness: the first batch was aborted with two of its fetches still
\* unsettled, and the reply is an error without results.
C17_Witness ==
  /\ pc = "responded"
  /\ reply.status = 500
  /\ reply.results = Undef
  /\ numBatches = 1
  /\ Cardinality(inFlight) = 2
  /\ records = <<>>

\* C18: a detail fetch is in flight only when no search request is open and
\* no sleep is pending; a batch is issued only once the loop has ended (the
\* last page brought no token, or the count reached the cap or the ceiling)
\* and the summaries were trimmed, the first batch by the very step that
\* receives the last page; a search request or a sleep starts only while no
\* batch was ever issued.
C18_DetailsOnlyAfterTheWalker ==
  [][/\ inFlight' # {} =>
          /\ ~searchReq'.open
          /\ timer' = 0
          /\ pc' \in {"awaitBatch", "responded"}
     /\ numBatches' # numBatches =>
          /\ numSearch' = numSearch
          /\ ~(/\ Truthy(pageToken')
               /\ Len(summaries') < CapOf(cleanMaxResults')
               /\ Len(summaries') < MAX_TOTAL_RESULTS)
          /\ trimmedSummaries' =
               SubSeq(summaries', 1, Min(Len(summaries'), CapOf(cleanMaxResults')))
          /\ numBatches = 0 => (pc = "awaitSearch" /\ searchReq.open)
     /\ (numSearch' # numSearch \/ (pc' = "sleeping" /\ pc # "sleeping")) =>
          /\ numBatches' = 0
          /\ inFlight' = {}
          /\ trimmedSummaries' = <<>>
    ]_vars

\* C18 witness: after three pages and two sleeps the first batch is in
\* flight, complete.
C18_Witness ==
  /\ pc = "awaitBatch"
  /\ numSearch = 3
  /\ numSleeps = 2
  /\ numBatches = 1
  /\ Cardinality(inFlight) = chunkSize
  /\ ~searchReq.open

\* the walker is at work: POST has not left the pagination loop
Walking == pc \in {"start", "awaitSearch", "sleeping"}

\* C20: when every page that carries a token carries a result, the search
\* requests of a run never number more than min(sanitized cap, 60); a request
\* for a further page is issued only with a token in hand and fewer summaries
\* collected than the sanitized cap and than 60; and the walker eventually
\* leaves the loop, for the detail phase or the final reply.
C20_LoopTerminates ==
  /\ [](numSearch >= 1 =>
          numSearch <= Min(CapOf(cleanMaxResults), MAX_TOTAL_RESULTS))
  /\ [][(numSearch' # numSearch /\ numSearch >= 1) =>
          /\ Truthy(pageToken)
          /\ Len(summaries) < CapOf(cleanMaxResults)
          /\ Len(summaries) < MAX_TOTAL_RESULTS
          /\ numSearch' = numSearch + 1
          /\ numSearch <= Len(summaries)
       ]_vars
  /\ <>(~Walking)

\* C20 witness: with a cap of 2 and pages of one result, the loop ended after
\* the second request although the second page still carried a token.
C20_Witness ==
  /\ ~Walking
  /\ cleanMaxResults = Int2Num(2)
  /\ numSearch = 2
  /\ Len(summaries) = 2
  /\ Truthy(pageToken)

====
